---- MODULE Spec2Model ----
(***************************************************************************)
(* Model of the faas-supervisor orchestrator                               *)
(* (faassupervisor/supervisor.py) and of the Onedata storage provider      *)
(* (faassupervisor/storage/providers/onedata.py).                          *)
(*                                                                         *)
(* One behaviour is one call of _start_supervisor(event, context): the     *)
(* construction of Supervisor followed by Supervisor.run().  The process   *)
(* environment (os.environ), the local filesystem and the remote answers   *)
(* are the state; pc is the position of the single thread of control.      *)
(***************************************************************************)
EXTENDS Naturals, Sequences, FiniteSets

VARIABLES
    onedata,      \* the Onedata provider instance (oneprovider_host, oneprovider_space,
                  \* storage_path) and the objects its endpoint holds, as [url, content]
    event,        \* the trigger payload handed to _start_supervisor
    world,        \* what the collaborators answer: provider construction results, output targets
    env,          \* os.environ: SUPERVISOR_TYPE, STEP, TMP_INPUT_DIR, TMP_OUTPUT_DIR, INPUT_FILE_PATH
    parsed_event, \* Supervisor.parsed_event (all fields None before parse_event(event))
    stg_auth,     \* Supervisor.stg_auth, None before _read_storage_variables()
    supervisor,   \* Supervisor.supervisor: the adapter variant, None before _create_supervisor
    stg_prov,     \* local stg_prov of _parse_input: "unbound", None, or the provider
    input_file_path, \* local input_file_path of _parse_input: "unbound", "" or a path
    status_code,  \* response.status_code of the download request (0: no request made)
    uploaded,     \* per target already handed to upload_output: file name |-> remote status
    dirs,         \* directories created by the orchestrator in this process
    files,        \* local files written in this process, as [path, content] records
    out_files,    \* names of the files present in TMP_OUTPUT_DIR
    calls,        \* the collaborator calls made so far, in order, as <<name, target>>
                  \* (target 0: the input side, or none)
    exc,          \* the exception raised (None if none)
    response,     \* value returned by run(): None, "response" or "error_response"
    pc            \* position of the thread of control

vars == <<onedata, event, world, env, parsed_event, stg_auth, supervisor, stg_prov,
          input_file_path, status_code, uploaded, dirs, files, out_files,
          calls, exc, response, pc>>

None == "None"

----------------------------------------------------------------------------
(* Bounds of the model. *)

\* Largest number of configured output targets (storage.get_output_paths()).
MaxTargets == 2

\* Largest number of files found in TMP_OUTPUT_DIR.
MaxOutFiles == 1

----------------------------------------------------------------------------
(* Values. *)

\* Values of SUPERVISOR_TYPE: the three known ones, an unknown one, and unset.
SupervisorTypes == {"LAMBDA", "BATCH", "OPENFAAS", "KUBELESS", None}

\* Values of STEP (None: the variable is not set, the implicit RUN phase).
Steps == {"INIT", "RUN", "END", None}

\* Trigger payloads: a storage notification of Onedata, and a plain HTTP body.
Payloads == {"onedata_notification", "http_body"}

\* Status codes a remote read request is answered with.
DownloadStatus == {200, 204, 404, 500}

\* Status codes a remote write request is answered with.
UploadStatus == {201, 202, 204, 403}

\* Contents a remote object can have.
Contents == {"bytes_a", "bytes_b"}

\* Errors the construction of a storage provider can raise.
ProviderErrors == {"UnsupportedProviderError", "MissingCredentialError"}

\* The classes caught by "except FaasSupervisorError" in run().
FaasSupervisorErrors ==
    {"InvalidSupervisorTypeError", "FunctionExecutionError"} \cup ProviderErrors

\* Names of the files that can be present in TMP_OUTPUT_DIR.
OutFileNames == 1..MaxOutFiles

\* Sequences over S of length at most n.
SeqUpTo(S, n) == UNION { [1..k -> S] : k \in 0..n }

----------------------------------------------------------------------------
(* Collaborators outside supervisor.py, by the contract the orchestrator  *)
(* relies on.                                                             *)

\* faassupervisor.events.parse_event: classifies the payload, never fails.
parse_event(ev) ==
    IF ev = "onedata_notification"
    THEN [type |-> "ONEDATA", object_key |-> "/space/dir/obj.txt", file_name |-> "obj.txt"]
    ELSE [type |-> "UNKNOWN", object_key |-> None, file_name |-> None]

\* SysUtils.get_env_var
get_env_var(name) == env[name]

\* SysUtils.join_paths
join_paths(dir, name) == dir \o "/" \o name

\* FileUtils.is_file
is_file(path) == \E f \in files : f.path = path

\* FileUtils.create_file_with_content: the file system with the file (re)written.
create_file_with_content(fs, path, content) ==
    { f \in fs : f.path # path } \cup { [path |-> path, content |-> content] }

----------------------------------------------------------------------------
(* onedata.py *)

\* Onedata._CDMI_PATH
_CDMI_PATH == "cdmi"

\* Onedata.download_file, lines 41-43, with the space put in front of the key
\* as upload_file does.
download_url_with_space(host, space, object_key) ==
    "https://" \o host \o "/" \o _CDMI_PATH \o "/" \o space \o object_key

\* Onedata.download_file, lines 41-43: the URL read.
download_url(host, space, object_key) ==
    "https://" \o host \o "/" \o _CDMI_PATH \o object_key

\* Onedata.upload_file, lines 63-66: the URL written.
upload_url(host, space, path, file_name) ==
    "https://" \o host \o "/" \o _CDMI_PATH \o "/" \o space \o "/" \o path
        \o "/" \o file_name

\* Onedata.download_file without the test of the status code: the body of any
\* response is written and its path returned.
download_file_unchecked(ev, input_dir_path, code, content) ==
    LET file_download_path == join_paths(input_dir_path, ev.file_name)
    IN  [path |-> file_download_path,
         files |-> create_file_with_content(files, file_download_path, content)]

\* Onedata.download_file taking every 2xx status for a success.
download_file_any_2xx(ev, input_dir_path, code, content) ==
    IF code \in 200..299
    THEN LET file_download_path == join_paths(input_dir_path, ev.file_name)
         IN  [path |-> file_download_path,
              files |-> create_file_with_content(files, file_download_path, content)]
    ELSE [path |-> "", files |-> files]

\* Onedata.download_file: the returned path and the file system it leaves.
download_file(ev, input_dir_path, code, content) ==
    IF code = 200
    THEN LET file_download_path == join_paths(input_dir_path, ev.file_name)
         IN  [path |-> file_download_path,
              files |-> create_file_with_content(files, file_download_path, content)]
    ELSE [path |-> "", files |-> files]

\* Onedata.upload_file, were a failed request raised (raise_for_status) instead of logged.
upload_file_raising(code) ==
    IF code \notin {201, 202, 204} THEN "HTTPError" ELSE "ok"

\* Onedata.upload_file: what the call ends in for a remote status
\* ("ok", "error_logged", or the exception it raises).
upload_file(code) ==
    IF code \notin {201, 202, 204} THEN "error_logged" ELSE "ok"

----------------------------------------------------------------------------
(* supervisor.py *)

\* _is_batch_environment taking every type but LAMBDA for batch.
_is_batch_environment_not_lambda == get_env_var("SUPERVISOR_TYPE") # "LAMBDA"

\* _is_batch_environment
_is_batch_environment == get_env_var("SUPERVISOR_TYPE") = "BATCH"

\* _create_supervisor with a default adapter in place of the final raise.
supervisor_for_defaulting(_type) ==
    IF _type = "LAMBDA" THEN "LambdaSupervisor"
    ELSE IF _type = "BATCH" THEN "BatchSupervisor"
    ELSE "OpenfaasSupervisor"

\* The adapter _create_supervisor selects for a SUPERVISOR_TYPE, or the error it raises.
supervisor_for(_type) ==
    IF _type = "LAMBDA" THEN "LambdaSupervisor"
    ELSE IF _type = "BATCH" THEN "BatchSupervisor"
    ELSE IF _type = "OPENFAAS" THEN "OpenfaasSupervisor"
    ELSE "InvalidSupervisorTypeError"

\* The except clause of run() logging the error and falling through to the
\* normal return instead of returning the error response.
raise_in_run_swallowed(e) ==
    /\ exc' = e
    /\ pc' = IF e \in FaasSupervisorErrors THEN "create_response" ELSE "crashed"

\* run() with the output staging in a finally clause: it is still entered when
\* execute_function has raised.
raise_in_run_finally(e) ==
    /\ exc' = e
    /\ pc' = IF e = "FunctionExecutionError" THEN "_parse_output"
             ELSE IF e \in FaasSupervisorErrors THEN "except" ELSE "crashed"

\* An exception raised inside the try block of run(): the except clause takes
\* the subclasses of FaasSupervisorError, every other one leaves run().
\* (The @exception() decorators log what passes through them and raise it again.)
raise_in_run(e) ==
    /\ exc' = e
    /\ pc' = IF e \in FaasSupervisorErrors THEN "except" ELSE "crashed"

\* The state after construction: the process environment and the world around it.
Init ==
    /\ onedata = [oneprovider_host |-> "oneprovider.example",
                  oneprovider_space |-> "space", storage_path |-> "out",
                  objects |-> {}]
    /\ event \in Payloads
    /\ \E t \in SupervisorTypes, s \in Steps, preset \in BOOLEAN :
          /\ (t = "BATCH") => preset
          /\ env = [SUPERVISOR_TYPE |-> t, STEP |-> s,
                    TMP_INPUT_DIR  |-> IF preset THEN "/mnt/in" ELSE None,
                    TMP_OUTPUT_DIR |-> IF preset THEN "/mnt/out" ELSE None,
                    INPUT_FILE_PATH |-> None]
          /\ out_files \in IF t = "BATCH" /\ s # "INIT"
                           THEN SUBSET OutFileNames ELSE {{}}
    /\ \E ip \in {"Onedata", None} \cup ProviderErrors,
          ts \in SeqUpTo({"Onedata"} \cup ProviderErrors, MaxTargets) :
          /\ (parse_event(event).type = "UNKNOWN") => ip # "Onedata"
          /\ world = [input_provider |-> ip, targets |-> ts]
    /\ parsed_event = [type |-> None, object_key |-> None, file_name |-> None]
    /\ stg_auth = None
    /\ supervisor = None
    /\ stg_prov = "unbound"
    /\ input_file_path = "unbound"
    /\ status_code = 0
    /\ uploaded = <<>>
    /\ dirs = {}
    /\ files = {}
    /\ calls = <<>>
    /\ exc = None
    /\ response = None
    /\ pc = "_create_tmp_dirs"

\* The test of line 56 letting every step but END create the folders.
batch_creates_folders_unless_end == get_env_var("STEP") # "END"

\* Supervisor._create_tmp_dirs, line 56: in batch the folders are created
\* "only at the INIT step"
batch_creates_folders == get_env_var("STEP") = "INIT"

\* _create_tmp_dirs keeping, in the non-batch branch, directories that the
\* environment already names instead of creating new ones.
_create_tmp_dirs_keeping_preset ==
    /\ pc = "_create_tmp_dirs"
    /\ IF _is_batch_environment
       THEN /\ dirs' = IF batch_creates_folders
                       THEN dirs \cup {get_env_var("TMP_INPUT_DIR"),
                                       get_env_var("TMP_OUTPUT_DIR")}
                       ELSE dirs
            /\ env' = env
       ELSE IF get_env_var("TMP_INPUT_DIR") # None
            THEN UNCHANGED <<dirs, env>>
            ELSE /\ dirs' = dirs \cup {"/tmp/tmp_in", "/tmp/tmp_out"}
                 /\ env' = [env EXCEPT !.TMP_INPUT_DIR = "/tmp/tmp_in",
                                       !.TMP_OUTPUT_DIR = "/tmp/tmp_out"]
    /\ pc' = "parse_event"
    /\ UNCHANGED <<onedata, event, world, parsed_event, stg_auth, supervisor, stg_prov,
                   input_file_path, status_code, uploaded, files, out_files,
                   calls, exc, response>>

\* Supervisor._create_tmp_dirs
_create_tmp_dirs ==
    /\ pc = "_create_tmp_dirs"
    /\ IF _is_batch_environment
       THEN /\ dirs' = IF batch_creates_folders
                       THEN dirs \cup {get_env_var("TMP_INPUT_DIR"),
                                       get_env_var("TMP_OUTPUT_DIR")}
                       ELSE dirs
            /\ env' = env
       ELSE /\ dirs' = dirs \cup {"/tmp/tmp_in", "/tmp/tmp_out"}
            /\ env' = [env EXCEPT !.TMP_INPUT_DIR = "/tmp/tmp_in",
                                  !.TMP_OUTPUT_DIR = "/tmp/tmp_out"]
    /\ pc' = "parse_event"
    /\ UNCHANGED <<onedata, event, world, parsed_event, stg_auth, supervisor, stg_prov,
                   input_file_path, status_code, uploaded, files, out_files,
                   calls, exc, response>>

\* Supervisor.__init__, line 40: self.parsed_event = parse_event(event)
init_parse_event ==
    /\ pc = "parse_event"
    /\ parsed_event' = parse_event(event)
    /\ calls' = Append(calls, <<"parse_event", 0>>)
    /\ pc' = "_read_storage_variables"
    /\ UNCHANGED <<onedata, event, world, env, stg_auth, supervisor, stg_prov,
                   input_file_path, status_code, uploaded, dirs, files,
                   out_files, exc, response>>

\* Supervisor._read_storage_variables
_read_storage_variables ==
    /\ pc = "_read_storage_variables"
    /\ stg_auth' = "StorageAuth"
    /\ calls' = Append(calls, <<"read_storage_providers", 0>>)
    /\ pc' = "_create_supervisor"
    /\ UNCHANGED <<onedata, event, world, env, parsed_event, supervisor, stg_prov,
                   input_file_path, status_code, uploaded, dirs, files,
                   out_files, exc, response>>

\* _create_supervisor, called from Supervisor.__init__ (outside the try of run)
_create_supervisor ==
    /\ pc = "_create_supervisor"
    /\ LET s == supervisor_for(get_env_var("SUPERVISOR_TYPE"))
       IN  IF s = "InvalidSupervisorTypeError"
           THEN /\ exc' = s
                /\ pc' = "crashed"
                /\ UNCHANGED supervisor
           ELSE /\ supervisor' = s
                /\ pc' = "_parse_input"
                /\ UNCHANGED exc
    /\ UNCHANGED <<onedata, event, world, env, parsed_event, stg_auth, stg_prov,
                   input_file_path, status_code, uploaded, dirs, files,
                   out_files, calls, response>>

\* The guard of line 92 testing for the END step instead of "not INIT".
skip_input_staging_at_end == get_env_var("STEP") = "END"

\* Supervisor._parse_input, line 92: in batch, "only download if INIT step"
skip_input_staging == get_env_var("STEP") # "INIT"

\* Supervisor._parse_input, lines 90-95: the batch guard and the adapter's extra steps
_parse_input ==
    /\ pc = "_parse_input"
    /\ IF _is_batch_environment
       THEN IF skip_input_staging
            THEN /\ pc' = "execute_function"
                 /\ UNCHANGED calls
            ELSE /\ calls' = Append(calls, <<"parse_input", 0>>)
                 /\ pc' = "_get_input_provider"
       ELSE /\ pc' = "_get_input_provider"
            /\ UNCHANGED calls
    /\ UNCHANGED <<onedata, event, world, env, parsed_event, stg_auth, supervisor, stg_prov,
                   input_file_path, status_code, uploaded, dirs, files,
                   out_files, exc, response>>

\* Supervisor._get_input_provider, called at line 97
_get_input_provider ==
    /\ pc = "_get_input_provider"
    /\ calls' = Append(calls, <<"create_provider", 0>>)
    /\ IF world.input_provider \in ProviderErrors
       THEN /\ raise_in_run(world.input_provider)
            /\ UNCHANGED stg_prov
       ELSE /\ stg_prov' = world.input_provider
            /\ pc' = "found_input_provider"
            /\ UNCHANGED exc
    /\ UNCHANGED <<onedata, event, world, env, parsed_event, stg_auth, supervisor,
                   input_file_path, status_code, uploaded, dirs, files,
                   out_files, response>>

\* Supervisor._parse_input, lines 98-99: stg_prov.get_type() is evaluated for the
\* log line before "if stg_prov" is tested
found_input_provider ==
    /\ pc = "found_input_provider"
    /\ IF stg_prov = None
       THEN raise_in_run("AttributeError")
       ELSE /\ pc' = "download_input"
            /\ UNCHANGED exc
    /\ UNCHANGED <<onedata, event, world, env, parsed_event, stg_auth, supervisor, stg_prov,
                   input_file_path, status_code, uploaded, dirs, files,
                   out_files, calls, response>>

\* Supervisor._parse_input, lines 100-104: storage.download_input hands over to
\* the provider's download_file
download_input ==
    /\ pc = "download_input"
    /\ \E code \in DownloadStatus, content \in Contents :
          LET r == download_file(parsed_event, get_env_var("TMP_INPUT_DIR"), code, content)
          IN  /\ status_code' = code
              /\ input_file_path' = r.path
              /\ files' = r.files
    /\ calls' = Append(calls, <<"download_input", 0>>)
    /\ pc' = "set_input_file_path"
    /\ UNCHANGED <<onedata, event, world, env, parsed_event, stg_auth, supervisor, stg_prov,
                   uploaded, dirs, out_files, exc, response>>

\* The condition of line 105 with the test of the file negated.
input_file_downloaded_negated == input_file_path # "" /\ ~is_file(input_file_path)

\* Line 105 left out: the variable is set to whatever the download returned.
input_file_downloaded_unchecked == TRUE

\* Supervisor._parse_input, line 105: the condition under which the variable is set
input_file_downloaded == input_file_path # "" /\ is_file(input_file_path)

\* Supervisor._parse_input, lines 105-107
set_input_file_path ==
    /\ pc = "set_input_file_path"
    /\ IF input_file_downloaded
       THEN /\ env' = [env EXCEPT !.INPUT_FILE_PATH = input_file_path]
            /\ calls' = Append(calls, <<"set_INPUT_FILE_PATH", 0>>)
       ELSE UNCHANGED <<env, calls>>
    /\ pc' = "execute_function"
    /\ UNCHANGED <<onedata, event, world, parsed_event, stg_auth, supervisor, stg_prov,
                   input_file_path, status_code, uploaded, dirs, files,
                   out_files, exc, response>>

\* Supervisor.run, line 124: the adapter runs the function, which may leave files
\* in TMP_OUTPUT_DIR, or fails with FunctionExecutionError
execute_function ==
    /\ pc = "execute_function"
    /\ calls' = Append(calls, <<"execute_function", 0>>)
    /\ \/ /\ \E written \in SUBSET OutFileNames : out_files' = out_files \cup written
          /\ pc' = "_parse_output"
          /\ UNCHANGED exc
       \/ /\ raise_in_run("FunctionExecutionError")
          /\ UNCHANGED out_files
    /\ UNCHANGED <<onedata, event, world, env, parsed_event, stg_auth, supervisor, stg_prov,
                   input_file_path, status_code, uploaded, dirs, files, response>>

\* The guard of line 112 testing for the INIT step instead of "not END".
skip_output_staging_at_init == _is_batch_environment /\ get_env_var("STEP") = "INIT"

\* Supervisor._parse_output, line 112: "in Batch, don't upload anything if not END step"
skip_output_staging == _is_batch_environment /\ get_env_var("STEP") # "END"

\* Supervisor._parse_output, lines 112-113: the batch guard
_parse_output ==
    /\ pc = "_parse_output"
    /\ pc' = IF skip_output_staging
             THEN "create_response"
             ELSE "_get_output_providers"
    /\ UNCHANGED <<onedata, event, world, env, parsed_event, stg_auth, supervisor, stg_prov,
                   input_file_path, status_code, uploaded, dirs, files,
                   out_files, calls, exc, response>>

\* The position of the first target whose provider cannot be constructed
\* (0 if every provider can).
first_failing(targets) ==
    IF \E i \in 1..Len(targets) : targets[i] \in ProviderErrors
    THEN CHOOSE i \in 1..Len(targets) :
            /\ targets[i] \in ProviderErrors
            /\ \A j \in 1..(i - 1) : targets[j] \notin ProviderErrors
    ELSE 0

\* Supervisor._get_output_providers: the list comprehension constructs the
\* provider of every target before the first upload; an error in one of them
\* leaves the comprehension, and _parse_output, with no list.
_get_output_providers ==
    /\ pc = "_get_output_providers"
    /\ LET n == Len(world.targets)
           k == first_failing(world.targets)
           made == IF k = 0 THEN n ELSE k
       IN  /\ calls' = calls \o [i \in 1..made |-> <<"create_provider", i>>]
           /\ IF k # 0
              THEN raise_in_run(world.targets[k])
              ELSE /\ pc' = IF n = 0 THEN "create_response" ELSE "upload_output"
                   /\ UNCHANGED exc
    /\ UNCHANGED <<onedata, event, world, env, parsed_event, stg_auth, supervisor, stg_prov,
                   input_file_path, status_code, uploaded, dirs, files,
                   out_files, response>>

\* Supervisor._parse_output, lines 115-117, one turn of the loop:
\* storage.upload_output hands every file of TMP_OUTPUT_DIR to upload_file
upload_output ==
    /\ pc = "upload_output"
    /\ LET k == Len(uploaded) + 1
       IN  /\ calls' = Append(calls, <<"upload_output", k>>)
           /\ \E codes \in [out_files -> UploadStatus] :
                 /\ uploaded' = Append(uploaded, codes)
                 /\ LET raised == { upload_file(codes[f]) : f \in out_files }
                                      \ {"ok", "error_logged"}
                    IN  IF raised # {}
                        THEN raise_in_run(CHOOSE e \in raised : TRUE)
                        ELSE /\ pc' = IF k = Len(world.targets)
                                      THEN "create_response" ELSE "upload_output"
                             /\ UNCHANGED exc
    /\ UNCHANGED <<onedata, event, world, env, parsed_event, stg_auth, supervisor, stg_prov,
                   input_file_path, status_code, dirs, files, out_files, response>>

\* Supervisor.run, lines 126-127
create_response ==
    /\ pc = "create_response"
    /\ calls' = Append(calls, <<"create_response", 0>>)
    /\ response' = "response"
    /\ pc' = "done"
    /\ UNCHANGED <<onedata, event, world, env, parsed_event, stg_auth, supervisor, stg_prov,
                   input_file_path, status_code, uploaded, dirs, files,
                   out_files, exc>>

\* Supervisor.run, lines 128-131
create_error_response ==
    /\ pc = "except"
    /\ calls' = Append(calls, <<"create_error_response", 0>>)
    /\ response' = "error_response"
    /\ pc' = "done"
    /\ UNCHANGED <<onedata, event, world, env, parsed_event, stg_auth, supervisor, stg_prov,
                   input_file_path, status_code, uploaded, dirs, files,
                   out_files, exc>>

\* _start_supervisor: Supervisor(event, context), then run()
Next ==
    \/ _create_tmp_dirs
    \/ init_parse_event
    \/ _read_storage_variables
    \/ _create_supervisor
    \/ _parse_input
    \/ _get_input_provider
    \/ found_input_provider
    \/ download_input
    \/ set_input_file_path
    \/ execute_function
    \/ _parse_output
    \/ _get_output_providers
    \/ upload_output
    \/ create_response
    \/ create_error_response

Spec == Init /\ [][Next]_vars

----------------------------------------------------------------------------
(* Vocabulary of the properties. *)

\* The call name(target) has been made.
Called(name, target) == \E i \in 1..Len(calls) : calls[i] = <<name, target>>

\* Some call of that name has been made.
CalledAny(name) == \E i \in 1..Len(calls) : calls[i][1] = name

\* _start_supervisor has ended: run() returned, or an exception left it.
Terminated == pc \in {"done", "crashed"}

\* SUPERVISOR_TYPE selects one of the three adapters.
KnownType == get_env_var("SUPERVISOR_TYPE") \in {"LAMBDA", "BATCH", "OPENFAAS"}

\* A synchronous (non-batch) run.
NonBatch == get_env_var("SUPERVISOR_TYPE") \in {"LAMBDA", "OPENFAAS"}

\* The positions inside Supervisor.__init__.
InitPositions ==
    {"_create_tmp_dirs", "parse_event", "_read_storage_variables", "_create_supervisor"}

\* The upload to target k met a remote status outside {201, 202, 204}.
SoftFailed(k) ==
    /\ k \in 1..Len(uploaded)
    /\ \E f \in DOMAIN uploaded[k] : uploaded[k][f] \notin {201, 202, 204}

\* s is an initial segment of t.
IsPrefix(s, t) == Len(s) <= Len(t) /\ SubSeq(t, 1, Len(s)) = s

----------------------------------------------------------------------------
(* C1 -- C10 *)

\* C1: whatever the configuration and whatever a collaborator raises,
\* _start_supervisor ends by returning a response object (the adapter's
\* response or its error response), never with an exception leaving it.
C1_AlwaysReturnsResponse ==
    Terminated => (pc = "done" /\ response \in {"response", "error_response"})

\* C2: with a SUPERVISOR_TYPE outside LAMBDA, BATCH, OPENFAAS the construction
\* ends with InvalidSupervisorTypeError, and up to then no provider was
\* constructed, nothing was downloaded or uploaded, and neither parse_input
\* nor execute_function of an adapter was called.
C2_UnknownTypeFailsBeforeAnyCall ==
    ~KnownType =>
        /\ pc \in InitPositions \cup {"crashed"}
        /\ (pc = "crashed") = (exc = "InvalidSupervisorTypeError")
        /\ exc \in {None, "InvalidSupervisorTypeError"}
        /\ supervisor = None
        /\ \A name \in {"create_provider", "download_input", "upload_output",
                        "parse_input", "execute_function"} : ~CalledAny(name)
        /\ uploaded = <<>> /\ status_code = 0 /\ stg_prov = "unbound"

\* C2 witness: an unknown SUPERVISOR_TYPE, and the construction has failed.
C2_Witness ==
    /\ get_env_var("SUPERVISOR_TYPE") = "KUBELESS"
    /\ pc = "crashed"
    /\ exc = "InvalidSupervisorTypeError"
    /\ stg_auth = "StorageAuth"

\* C3: in batch with STEP = INIT or STEP = END the orchestrator never calls
\* the adapter's execute_function.
C3_NoExecutionOutsideRunPhase ==
    (_is_batch_environment /\ get_env_var("STEP") \in {"INIT", "END"})
        => ~CalledAny("execute_function")

\* C4: in batch with STEP other than END no output provider is constructed and
\* no upload is made, whatever output targets are configured.
C4_NoOutputStagingBeforeEnd ==
    (_is_batch_environment /\ get_env_var("STEP") # "END") =>
        /\ \A k \in 1..Len(world.targets) :
              ~Called("create_provider", k) /\ ~Called("upload_output", k)
        /\ ~CalledAny("upload_output")
        /\ uploaded = <<>>
        /\ pc \notin {"_get_output_providers", "upload_output"}

\* C4 witness: a batch INIT run with output targets configured went through
\* _parse_output and returned.
C4_Witness ==
    /\ _is_batch_environment
    /\ get_env_var("STEP") = "INIT"
    /\ Len(world.targets) = MaxTargets
    /\ first_failing(world.targets) = 0
    /\ out_files # {}
    /\ pc = "done"
    /\ response = "response"

\* C5: in batch with STEP other than INIT the adapter's parse_input is not
\* called, no input provider is constructed, nothing is downloaded, and
\* INPUT_FILE_PATH is not set.
C5_NoInputStagingAfterInit ==
    (_is_batch_environment /\ get_env_var("STEP") # "INIT") =>
        /\ ~CalledAny("parse_input")
        /\ ~Called("create_provider", 0)
        /\ ~CalledAny("download_input")
        /\ ~CalledAny("set_INPUT_FILE_PATH")
        /\ get_env_var("INPUT_FILE_PATH") = None
        /\ stg_prov = "unbound" /\ status_code = 0 /\ files = {}

\* C5 witness: a batch END run, triggered by a storage event whose provider
\* can be constructed, went through _parse_input and returned.
C5_Witness ==
    /\ _is_batch_environment
    /\ get_env_var("STEP") = "END"
    /\ parsed_event.type = "ONEDATA"
    /\ world.input_provider = "Onedata"
    /\ CalledAny("execute_function")
    /\ pc = "done"
    /\ response = "response"

\* C6: when the input provider resolves to nothing, _parse_input raises no
\* error, downloads nothing and leaves INPUT_FILE_PATH alone, and run goes on
\* to execute the function.
C6_NoProviderIsSilent ==
    (stg_prov = None) =>
        /\ ~CalledAny("download_input")
        /\ get_env_var("INPUT_FILE_PATH") = None
        /\ (exc # None => CalledAny("execute_function"))
        /\ (Terminated => CalledAny("execute_function"))

\* C7: in a non-batch run whose download is answered with a status other than
\* success, INPUT_FILE_PATH stays unset, input staging raises nothing, and
\* execute_function is the next call.
C7_SoftDownloadFailure ==
    (NonBatch /\ status_code \notin {0, 200}) =>
        /\ input_file_path = ""
        /\ get_env_var("INPUT_FILE_PATH") = None
        /\ ~CalledAny("set_INPUT_FILE_PATH")
        /\ pc # "crashed"
        /\ (exc # None => CalledAny("execute_function"))
        /\ (pc \notin {"set_input_file_path", "execute_function"}
               => CalledAny("execute_function"))

\* C7 witness: a LAMBDA run whose download got 404 returned the success response.
C7_Witness ==
    /\ get_env_var("SUPERVISOR_TYPE") = "LAMBDA"
    /\ status_code = 404
    /\ CalledAny("execute_function")
    /\ pc = "done"
    /\ response = "response"

\* C8: once the upload to some target k has soft-failed, nothing is raised, the
\* loop goes on until every configured target has been handed to
\* upload_output, and run returns the success response.
C8_SoftUploadFailureDoesNotShortCircuit ==
    (\E k \in 1..Len(uploaded) : SoftFailed(k)) =>
        /\ exc = None
        /\ pc \in {"upload_output", "create_response", "done"}
        /\ (pc = "upload_output" => Len(uploaded) < Len(world.targets))
        /\ (pc # "upload_output" =>
               \A j \in 1..Len(world.targets) :
                  Called("upload_output", j) /\ DOMAIN uploaded[j] = out_files)
        /\ (pc = "done" => response = "response")

\* C8 witness: the first of several targets soft-failed, a later one was
\* uploaded, and run returned the success response.
C8_Witness ==
    /\ Len(world.targets) >= 2
    /\ SoftFailed(1)
    /\ Called("upload_output", Len(world.targets))
    /\ pc = "done"
    /\ response = "response"

\* C9: when the construction of the output provider of one target raises,
\* the uploads to all the other configured targets are still made.
C9_OnlyTheFailingLegFails ==
    (Terminated /\ out_files # {} /\ \E k \in 1..Len(world.targets) :
                      /\ Called("create_provider", k)
                      /\ world.targets[k] \in ProviderErrors) =>
        \A j \in 1..Len(world.targets) :
            world.targets[j] \notin ProviderErrors => Called("upload_output", j)

\* The calls of a complete synchronous run with a successful download.
FullRun ==
    << <<"parse_event", 0>>, <<"read_storage_providers", 0>>,
       <<"create_provider", 0>>, <<"download_input", 0>>,
       <<"set_INPUT_FILE_PATH", 0>>, <<"execute_function", 0>> >>
    \o [k \in 1..Len(world.targets) |-> <<"create_provider", k>>]
    \o [k \in 1..Len(world.targets) |-> <<"upload_output", k>>]
    \o << <<"create_response", 0>> >>

\* C10: in a non-batch run with a storage event whose download succeeded, the
\* calls made are, at every moment, an initial segment of: download, set
\* INPUT_FILE_PATH to the downloaded path, execute_function, the upload of
\* TMP_OUTPUT_DIR to each target in turn, create_response (an error response
\* can only close a segment cut short by a raise); when nothing is raised
\* the run ends with the whole sequence and the success response.
C10_StepsInOrder ==
    (NonBatch /\ status_code = 200) =>
        /\ IsPrefix(IF exc # None /\ pc = "done"
                    THEN SubSeq(calls, 1, Len(calls) - 1) ELSE calls, FullRun)
        /\ (pc # "set_input_file_path" =>
               /\ Called("set_INPUT_FILE_PATH", 0)
               /\ get_env_var("INPUT_FILE_PATH")
                     = join_paths(get_env_var("TMP_INPUT_DIR"), parsed_event.file_name)
               /\ is_file(get_env_var("INPUT_FILE_PATH")))
        /\ (pc = "set_input_file_path" => get_env_var("INPUT_FILE_PATH") = None)
        /\ \A k \in 1..Len(uploaded) : DOMAIN uploaded[k] = out_files
        /\ ((pc = "done" /\ exc = None) => (calls = FullRun /\ response = "response"))

\* C10 witness: an OPENFAAS run with a successful download, output files and
\* several targets has returned the success response.
C10_Witness ==
    /\ get_env_var("SUPERVISOR_TYPE") = "OPENFAAS"
    /\ status_code = 200
    /\ Len(world.targets) = MaxTargets
    /\ out_files # {}
    /\ Len(uploaded) = MaxTargets
    /\ pc = "done"
    /\ response = "response"

----------------------------------------------------------------------------
(* C11 -- C18 *)

\* The position in calls of the first call of that name (0 if there is none).
FirstCall(name) ==
    IF CalledAny(name)
    THEN CHOOSE i \in 1..Len(calls) :
            calls[i][1] = name /\ \A j \in 1..(i - 1) : calls[j][1] # name
    ELSE 0

\* How many calls of that name have been made.
CallCount(name) == Cardinality({ i \in 1..Len(calls) : calls[i][1] = name })

\* C11: when a supervisor error is raised in run (in input staging, in
\* execute_function or in output staging), run returns the adapter's error
\* response and never the success response; the success response is returned
\* only when the three steps ended without raising.
C11_ErrorResponseIffRaised ==
    /\ (exc \in FaasSupervisorErrors /\ pc # "crashed") =>
          /\ pc \in {"except", "done"}
          /\ ~CalledAny("create_response")
          /\ response = IF pc = "done" THEN "error_response" ELSE None
          /\ (pc = "done" => calls[Len(calls)] = <<"create_error_response", 0>>)
    /\ (response = "response") =>
          /\ exc = None
          /\ pc = "done"
          /\ CalledAny("execute_function")
          /\ ~CalledAny("create_error_response")
          /\ calls[Len(calls)] = <<"create_response", 0>>
    /\ (pc = "done") => (response = IF exc = None THEN "response" ELSE "error_response")

\* C11 witness: execute_function raised after a successful download, and run
\* returned the error response.
C11_Witness ==
    /\ exc = "FunctionExecutionError"
    /\ status_code = 200
    /\ get_env_var("INPUT_FILE_PATH") # None
    /\ pc = "done"
    /\ response = "error_response"

\* C13: in batch the orchestrator creates the directories named by
\* TMP_INPUT_DIR and TMP_OUTPUT_DIR exactly when STEP = INIT and creates no
\* directory for any other STEP; it never changes the two variables, so the
\* directories of INIT are the ones the later steps name.
C13_BatchDirsOnlyAtInit ==
    (get_env_var("SUPERVISOR_TYPE") = "BATCH") =>
        /\ get_env_var("TMP_INPUT_DIR") = "/mnt/in"
        /\ get_env_var("TMP_OUTPUT_DIR") = "/mnt/out"
        /\ dirs = IF pc # "_create_tmp_dirs" /\ get_env_var("STEP") = "INIT"
                  THEN {"/mnt/in", "/mnt/out"}
                  ELSE {}

\* C13 witness: a batch INIT run has created the two directories and ended.
C13_Witness ==
    /\ get_env_var("SUPERVISOR_TYPE") = "BATCH"
    /\ get_env_var("STEP") = "INIT"
    /\ dirs = {get_env_var("TMP_INPUT_DIR"), get_env_var("TMP_OUTPUT_DIR")}
    /\ Cardinality(dirs) = 2
    /\ Terminated

\* C14: download_file returns a non-empty path exactly for the status 200;
\* the path is then the input directory joined with the event's file name and
\* the file at it holds the content of the response; for every other status
\* it returns the empty string, writes no file and raises nothing.
C14_DownloadFileContract ==
    /\ (pc = "download_input") =>
          \A code \in DownloadStatus, content \in Contents :
             LET dir == get_env_var("TMP_INPUT_DIR")
                 r == download_file(parsed_event, dir, code, content)
             IN  /\ (r.path # "") = (code = 200)
                 /\ (code = 200) =>
                       /\ r.path = dir \o "/" \o parsed_event.file_name
                       /\ { f \in r.files : f.path = r.path }
                             = { [path |-> r.path, content |-> content] }
                       /\ { f \in r.files : f.path # r.path } = files
                 /\ (code # 200) => (r.path = "" /\ r.files = files)
    /\ (status_code # 0) =>
          /\ CalledAny("download_input")
          /\ (input_file_path # "") = (status_code = 200)
          /\ (status_code = 200) =>
                /\ input_file_path
                      = get_env_var("TMP_INPUT_DIR") \o "/" \o parsed_event.file_name
                /\ Cardinality(files) = 1
                /\ \A f \in files : f.path = input_file_path /\ f.content \in Contents
          /\ (status_code # 200) => (input_file_path = "" /\ files = {})
          /\ (pc = "set_input_file_path") => (exc = None)

\* C14 witness: a download answered 200 has returned; the file is there.
C14_Witness ==
    /\ pc = "set_input_file_path"
    /\ status_code = 200
    /\ input_file_path = "/tmp/tmp_in/obj.txt"
    /\ [path |-> "/tmp/tmp_in/obj.txt", content |-> "bytes_b"] \in files

\* C15: the adapter's parse_input is called only with SUPERVISOR_TYPE = BATCH
\* and STEP = INIT, at most once in a run, and before the input provider is
\* resolved and the download made; in a batch INIT run the provider is never
\* resolved without it; for LAMBDA and OPENFAAS it is never called.
C15_AdapterParseInputOnlyAtBatchInit ==
    /\ CalledAny("parse_input") =>
          /\ get_env_var("SUPERVISOR_TYPE") = "BATCH"
          /\ get_env_var("STEP") = "INIT"
          /\ CallCount("parse_input") = 1
          /\ Called("create_provider", 0)
                => FirstCall("parse_input") < FirstCall("create_provider")
          /\ CalledAny("download_input")
                => FirstCall("parse_input") < FirstCall("download_input")
    /\ (get_env_var("SUPERVISOR_TYPE") = "BATCH" /\ Called("create_provider", 0))
          => CalledAny("parse_input")
    /\ (get_env_var("SUPERVISOR_TYPE") \in {"LAMBDA", "OPENFAAS"})
          => ~CalledAny("parse_input")

\* C15 witness: a batch INIT run called parse_input and then downloaded.
C15_Witness ==
    /\ get_env_var("SUPERVISOR_TYPE") = "BATCH"
    /\ get_env_var("STEP") = "INIT"
    /\ CalledAny("parse_input")
    /\ CalledAny("download_input")
    /\ status_code = 200
    /\ pc = "done"

\* C16: whenever the orchestrator has set INPUT_FILE_PATH, a download call was
\* made before, it returned a non-empty path naming an existing file, and
\* INPUT_FILE_PATH is that path; the variable is set at most once in a run and
\* is still unset while the download has not returned.
C16_InputFilePathOnlyAfterDownload ==
    /\ CallCount("set_INPUT_FILE_PATH") <= 1
    /\ CalledAny("set_INPUT_FILE_PATH") = (get_env_var("INPUT_FILE_PATH") # None)
    /\ (get_env_var("INPUT_FILE_PATH") # None) =>
          /\ CalledAny("download_input")
          /\ FirstCall("download_input") < FirstCall("set_INPUT_FILE_PATH")
          /\ status_code = 200
          /\ input_file_path \notin {"", "unbound"}
          /\ get_env_var("INPUT_FILE_PATH") = input_file_path
          /\ \E f \in files : f.path = input_file_path
    /\ (input_file_path = "unbound" \/ pc = "set_input_file_path")
          => get_env_var("INPUT_FILE_PATH") = None

\* C16 witness: INPUT_FILE_PATH was set in a batch INIT run, which went on.
C16_Witness ==
    /\ get_env_var("SUPERVISOR_TYPE") = "BATCH"
    /\ get_env_var("INPUT_FILE_PATH") = "/mnt/in/obj.txt"
    /\ pc = "execute_function"

\* C17: in a run where execute_function has raised, output staging is never
\* entered: no output provider is constructed, nothing is uploaded, and the
\* only call that follows execute_function is create_error_response.
C17_NoOutputStagingAfterFailedExecution ==
    (exc = "FunctionExecutionError") =>
        /\ pc \in {"except", "done"}
        /\ \A k \in 1..Len(world.targets) :
              ~Called("create_provider", k) /\ ~Called("upload_output", k)
        /\ ~CalledAny("upload_output")
        /\ uploaded = <<>>
        /\ ~CalledAny("create_response")
        /\ LET after == SubSeq(calls, FirstCall("execute_function") + 1, Len(calls))
           IN  /\ CallCount("execute_function") = 1
               /\ after = IF pc = "done" THEN << <<"create_error_response", 0>> >>
                          ELSE << >>

\* C17 witness: execute_function raised in a run with output targets and
\* files waiting in TMP_OUTPUT_DIR, and the run returned the error response.
C17_Witness ==
    /\ exc = "FunctionExecutionError"
    /\ get_env_var("STEP") = "END"
    /\ Len(world.targets) = MaxTargets
    /\ first_failing(world.targets) = 0
    /\ out_files # {}
    /\ pc = "done"
    /\ response = "error_response"

\* C18: outside batch (an unknown SUPERVISOR_TYPE included) the construction
\* first creates two new temporary directories and overwrites TMP_INPUT_DIR
\* and TMP_OUTPUT_DIR with them, whatever they held: this is done by the time
\* the event is classified, the credentials are read or SUPERVISOR_TYPE is
\* validated.  In batch the two variables keep the values supplied from
\* outside, and the only directories touched are the ones they name.
C18_TmpDirsFirstOutsideBatch ==
    /\ (get_env_var("SUPERVISOR_TYPE") # "BATCH") =>
          IF pc = "_create_tmp_dirs"
          THEN /\ dirs = {} /\ calls = << >>
               /\ stg_auth = None /\ supervisor = None /\ exc = None
               /\ parsed_event.type = None
               /\ get_env_var("TMP_INPUT_DIR") \in {None, "/mnt/in"}
               /\ get_env_var("TMP_OUTPUT_DIR") \in {None, "/mnt/out"}
          ELSE /\ Cardinality(dirs) = 2
               /\ dirs \cap {None, "/mnt/in", "/mnt/out"} = {}
               /\ get_env_var("TMP_INPUT_DIR") \in dirs
               /\ get_env_var("TMP_OUTPUT_DIR") \in dirs
               /\ get_env_var("TMP_INPUT_DIR") # get_env_var("TMP_OUTPUT_DIR")
    /\ (get_env_var("SUPERVISOR_TYPE") = "BATCH") =>
          /\ get_env_var("TMP_INPUT_DIR") = "/mnt/in"
          /\ get_env_var("TMP_OUTPUT_DIR") = "/mnt/out"
          /\ dirs \subseteq {"/mnt/in", "/mnt/out"}
          /\ \A f \in files : f.path = "/mnt/in/obj.txt"

\* C18 witness: with an unknown SUPERVISOR_TYPE the new directories were made
\* and named before the validation of the type failed.
C18_Witness ==
    /\ get_env_var("SUPERVISOR_TYPE") = "KUBELESS"
    /\ exc = "InvalidSupervisorTypeError"
    /\ dirs = {"/tmp/tmp_in", "/tmp/tmp_out"}
    /\ get_env_var("TMP_INPUT_DIR") = "/tmp/tmp_in"
    /\ get_env_var("TMP_OUTPUT_DIR") = "/tmp/tmp_out"

----------------------------------------------------------------------------
(* The round trip through one Onedata provider: upload_file of a file of   *)
(* TMP_OUTPUT_DIR, then download_file for an event that addresses the      *)
(* object just written.  The endpoint is a store of objects by URL.        *)

\* Spaces, destination paths and file names of the round trip.
Spaces == {"space", "other"}
StoragePaths == {"out", "out/sub"}
FileNames == {"obj.txt", "res.bin"}

\* The key by which a storage event names the object file_name at path in space.
object_key_of(space, path, file_name) == "/" \o space \o "/" \o path \o "/" \o file_name

\* The endpoint's answer to the PUT of upload_file: a request answered 201,
\* 202 or 204 has stored the body under the URL, any other has stored nothing.
cdmi_put(objects, url, data, code) ==
    IF code \in {201, 202, 204}
    THEN { o \in objects : o.url # url } \cup { [url |-> url, content |-> data] }
    ELSE objects

\* The endpoint's answer to the GET of download_file: 200 and the stored bytes
\* when the URL names an object, 404 otherwise.
cdmi_get(objects, url) ==
    IF \E o \in objects : o.url = url
    THEN [status_code |-> 200, content |-> (CHOOSE o \in objects : o.url = url).content]
    ELSE [status_code |-> 404, content |-> ""]

\* The content of the local file at path.
content_of(path) == (CHOOSE f \in files : f.path = path).content

\* A provider instance, a file waiting in TMP_OUTPUT_DIR, and the event that
\* addresses the object the upload of that file writes.  The endpoint may
\* already hold an object under that address.
RoundTripInit ==
    /\ \E space \in Spaces, path \in StoragePaths, name \in FileNames,
          data \in Contents, old \in Contents \cup {None} :
          /\ onedata = [oneprovider_host |-> "oneprovider.example",
                        oneprovider_space |-> space, storage_path |-> path,
                        objects |-> IF old = None THEN {}
                                    ELSE { [url |-> upload_url("oneprovider.example",
                                                               space, path, name),
                                            content |-> old] }]
          /\ parsed_event = [type |-> "ONEDATA",
                             object_key |-> object_key_of(space, path, name),
                             file_name |-> name]
          /\ files = { [path |-> join_paths("/tmp/tmp_out", name), content |-> data] }
    /\ event = "onedata_notification"
    /\ world = [input_provider |-> "Onedata", targets |-> <<"Onedata">>]
    /\ env = [SUPERVISOR_TYPE |-> "LAMBDA", STEP |-> None,
              TMP_INPUT_DIR |-> "/tmp/tmp_in", TMP_OUTPUT_DIR |-> "/tmp/tmp_out",
              INPUT_FILE_PATH |-> None]
    /\ stg_auth = "StorageAuth"
    /\ supervisor = "LambdaSupervisor"
    /\ stg_prov = "Onedata"
    /\ input_file_path = "unbound"
    /\ status_code = 0
    /\ uploaded = <<>>
    /\ dirs = {"/tmp/tmp_in", "/tmp/tmp_out"}
    /\ out_files = {1}
    /\ calls = <<>>
    /\ exc = None
    /\ response = None
    /\ pc = "rt_upload_file"

\* Onedata.upload_file(file_path, file_name): the file is read and PUT
rt_upload_file ==
    /\ pc = "rt_upload_file"
    /\ LET file_name == parsed_event.file_name
           file_path == join_paths(get_env_var("TMP_OUTPUT_DIR"), file_name)
           url == upload_url(onedata.oneprovider_host, onedata.oneprovider_space,
                             onedata.storage_path, file_name)
       IN  \E code \in UploadStatus :
              /\ onedata' = [onedata EXCEPT
                                !.objects = cdmi_put(@, url, content_of(file_path), code)]
              /\ uploaded' = Append(uploaded, [f \in out_files |-> code])
              /\ IF upload_file(code) \in {"ok", "error_logged"}
                 THEN pc' = "rt_download_file" /\ UNCHANGED exc
                 ELSE pc' = "crashed" /\ exc' = upload_file(code)
    /\ calls' = Append(calls, <<"upload_file", 1>>)
    /\ UNCHANGED <<event, world, env, parsed_event, stg_auth, supervisor, stg_prov,
                   input_file_path, status_code, dirs, files, out_files, response>>

\* Onedata.download_file(event, input_dir_path): the object is GET and written
rt_download_file ==
    /\ pc = "rt_download_file"
    /\ LET url == download_url(onedata.oneprovider_host, onedata.oneprovider_space,
                               parsed_event.object_key)
           answer == cdmi_get(onedata.objects, url)
           r == download_file(parsed_event, get_env_var("TMP_INPUT_DIR"),
                              answer.status_code, answer.content)
       IN  /\ status_code' = answer.status_code
           /\ input_file_path' = r.path
           /\ files' = r.files
    /\ calls' = Append(calls, <<"download_file", 0>>)
    /\ pc' = "rt_done"
    /\ UNCHANGED <<onedata, event, world, env, parsed_event, stg_auth, supervisor,
                   stg_prov, uploaded, dirs, out_files, exc, response>>

RoundTripNext == rt_upload_file \/ rt_download_file

RoundTrip == RoundTripInit /\ [][RoundTripNext]_vars

\* C12: a file uploaded with upload_file (the endpoint answering 201, 202 or
\* 204) and then downloaded with download_file through the same provider
\* instance and the same addressing (host, space, destination path, file
\* name) is found and written next to the input files with exactly the
\* content of the uploaded file, whatever the endpoint held before.
C12_RoundTripIdentical ==
    (pc = "rt_done" /\ uploaded[1][1] \in {201, 202, 204}) =>
        LET sent == join_paths(get_env_var("TMP_OUTPUT_DIR"), parsed_event.file_name)
        IN  /\ status_code = 200
            /\ input_file_path
                  = join_paths(get_env_var("TMP_INPUT_DIR"), parsed_event.file_name)
            /\ input_file_path # sent
            /\ \E f \in files : f.path = input_file_path
            /\ content_of(input_file_path) = content_of(sent)

\* C12 witness: a round trip of a file through a sub-path of a space has
\* ended with the uploaded bytes next to the input files.
C12_Witness ==
    /\ pc = "rt_done"
    /\ uploaded[1][1] = 202
    /\ status_code = 200
    /\ onedata.storage_path = "out/sub"
    /\ onedata.objects =
          { [url |-> "https://oneprovider.example/cdmi/other/out/sub/res.bin",
             content |-> "bytes_b"] }
    /\ content_of("/tmp/tmp_in/res.bin") = "bytes_b"

====
